---- MODULE Spec2Model ----
(***************************************************************************)
(* Pomodoro session engine of TaskTracker:                                 *)
(*   src/src/tasktracker/models/pomodoro.py      (PomodoroSession)         *)
(*   src/src/tasktracker/services/pomodoro_service.py (PomodoroService)    *)
(* and the Pomodoro routes of the web app, src/app.py, which keep the same *)
(* timer in module globals (specification SpecApp).                        *)
(* The task list and the stores behind it:                                 *)
(*   src/src/tasktracker/models/task.py              (Task)                *)
(*   src/src/tasktracker/services/task_service.py    (TaskService)         *)
(*   src/src/tasktracker/services/storage_service.py (StorageService)      *)
(* (specifications SpecTasks and SpecStorage).                             *)
(*                                                                         *)
(* Time.  datetime.now() is the only input of the engine.  The wall clock  *)
(* is modelled in ticks of 1/TicksPerSecond second, so that the float      *)
(* seconds of timedelta.total_seconds() and the int() truncation of        *)
(* get_remaining_seconds are both visible.  The variable now is the value  *)
(* of the most recent clock reading; every datetime.now() of a handler is  *)
(* a reading that is not earlier than the previous one (the clock is       *)
(* assumed not to be set back).  Readings are taken from the sampled set   *)
(* Instants.                                                               *)
(***************************************************************************)
EXTENDS Integers, FiniteSets, Sequences, TLC

\* ---------------------------------------------------------------- bounds
TicksPerSecond == 2
HorizonMinutes == 2
GridBack == 1
MaxFine == 2
MaxJitter == 1
MaxMinutes == 2
MaxCompleted == 2
MaxNames == 3
MaxTasks == 2
MaxLap == 2

\* ------------------------------------------------------ program constants
SecondsPerMinute == 60
DEFAULT_WORK_MINUTES == 25
DEFAULT_REST_MINUTES == 5
None == -1

WORK == "work"
REST == "rest"
SessionType == {WORK, REST}

NOT_STARTED == "not_started"
RUNNING == "running"
PAUSED == "paused"
COMPLETED == "completed"
SessionState == {NOT_STARTED, RUNNING, PAUSED, COMPLETED}

\* ------------------------------------------------------------ the clock
TicksPerMinute == SecondsPerMinute * TicksPerSecond
MaxNow == HorizonMinutes * TicksPerMinute + MaxFine

\* The sampled instants: a window of MaxFine + 1 ticks that opens GridBack
\* ticks before every whole minute.
Instants == {t \in 0..MaxNow : (t + GridBack) % TicksPerMinute <= MaxFine}

\* The sequences of n clock readings a handler can take when it is entered
\* at reading t: the first is t, each is no earlier than the one before, and
\* the handler takes at most MaxJitter ticks.
Readings(t, n) ==
    {r \in [1..n -> {i \in Instants : i >= t /\ i <= t + MaxJitter}] :
        /\ n > 0 => r[1] = t
        /\ \A i \in 1..(n - 1) : r[i] <= r[i + 1]}

\* The arguments tried for update_settings: every pair of valid minutes, a
\* pair with a zero and a pair with a negative value.
ArgMinutes ==
    ((1..MaxMinutes) \X (1..MaxMinutes)) \cup {<<0, MaxMinutes>>, <<MaxMinutes, -1>>}

VARIABLES
    now,        \* the latest reading of datetime.now(), in ticks
    session,    \* PomodoroService._session, a PomodoroSession
    ret,        \* the operation of the last step and what it returned
    app,        \* the Pomodoro globals of the web app (src/app.py)
    task_service \* a TaskService and the StorageService it holds

vars == <<now, session, ret, app, task_service>>

\* ------------------------------------------------- PomodoroSession (model)
\* total_seconds() is a float number of seconds: kept in ticks.
Max(a, b) == IF a >= b THEN a ELSE b

\* int(x) of a non-negative number of seconds given in ticks.
int(ticks) == ticks \div TicksPerSecond

PomodoroSession(w, r, d) ==
    [ session_type            |-> WORK,
      duration_minutes        |-> d,
      work_sessions_completed |-> 0,
      rest_sessions_completed |-> 0,
      state                   |-> NOT_STARTED,
      start_time              |-> None,
      paused_elapsed          |-> 0,
      is_focus_mode           |-> FALSE,
      work_minutes            |-> w,
      rest_minutes            |-> r ]

\* start_session that continues a paused session instead of starting anew.
start_session_keeps_elapsed(s, t) ==
    IF s.state = RUNNING
    THEN s
    ELSE [s EXCEPT !.state = RUNNING, !.start_time = t - s.paused_elapsed,
                   !.paused_elapsed = 0]

start_session(s, t) ==
    IF s.state = RUNNING
    THEN s
    ELSE [s EXCEPT !.state = RUNNING, !.start_time = t, !.paused_elapsed = 0]

\* pause_session with the guard written as "state == NOT_STARTED": a pause
\* of a PAUSED session would store a new paused_elapsed.
pause_session_unguarded(s, t) ==
    IF s.state = NOT_STARTED
    THEN s
    ELSE [s EXCEPT !.paused_elapsed =
                       IF s.start_time # None THEN t - s.start_time ELSE @,
                   !.state = PAUSED]

pause_session(s, t) ==
    IF s.state # RUNNING
    THEN s
    ELSE [s EXCEPT !.paused_elapsed =
                       IF s.start_time # None THEN t - s.start_time ELSE @,
                   !.state = PAUSED]

\* resume_session that restarts from the reading instead of moving
\* start_time back by paused_elapsed.
resume_session_restart(s, t) ==
    IF s.state # PAUSED
    THEN s
    ELSE [s EXCEPT !.start_time = t,
                   !.state = RUNNING,
                   !.paused_elapsed = 0]

resume_session(s, t) ==
    IF s.state # PAUSED
    THEN s
    ELSE [s EXCEPT !.start_time = t - s.paused_elapsed,
                   !.state = RUNNING,
                   !.paused_elapsed = 0]

\* reset_session that leaves the session type as it is.
reset_session_keeps_type(s) ==
    [s EXCEPT !.state = NOT_STARTED,
              !.start_time = None,
              !.paused_elapsed = 0,
              !.work_sessions_completed = 0,
              !.rest_sessions_completed = 0]

\* reset_session that forgets the rest counter.
reset_session_keeps_counter(s) ==
    [s EXCEPT !.state = NOT_STARTED,
              !.start_time = None,
              !.paused_elapsed = 0,
              !.session_type = WORK,
              !.work_sessions_completed = 0]

\* reset_session that forgets to clear start_time.
reset_session_keeps_start(s) ==
    [s EXCEPT !.state = NOT_STARTED,
              !.paused_elapsed = 0,
              !.session_type = WORK,
              !.work_sessions_completed = 0,
              !.rest_sessions_completed = 0]

reset_session(s) ==
    [s EXCEPT !.state = NOT_STARTED,
              !.start_time = None,
              !.paused_elapsed = 0,
              !.session_type = WORK,
              !.work_sessions_completed = 0,
              !.rest_sessions_completed = 0]

\* TRUE when get_remaining_seconds reads the clock.
reads_clock(s) == s.start_time # None /\ s.state = RUNNING

\* get_remaining_seconds without the max(0, ...).
get_remaining_seconds_unclamped(s, t) ==
    IF s.start_time = None
    THEN s.duration_minutes * SecondsPerMinute
    ELSE IF s.state = PAUSED
    THEN (s.duration_minutes * TicksPerMinute - s.paused_elapsed) \div TicksPerSecond
    ELSE IF s.state = RUNNING
    THEN (s.duration_minutes * TicksPerMinute - (t - s.start_time)) \div TicksPerSecond
    ELSE s.duration_minutes * SecondsPerMinute

get_remaining_seconds(s, t) ==
    IF s.start_time = None
    THEN s.duration_minutes * SecondsPerMinute
    ELSE IF s.state = PAUSED
    THEN int(Max(0, s.duration_minutes * TicksPerMinute - s.paused_elapsed))
    ELSE IF s.state = RUNNING
    THEN int(Max(0, s.duration_minutes * TicksPerMinute - (t - s.start_time)))
    ELSE s.duration_minutes * SecondsPerMinute

\* is_session_complete without the test of the state.
is_session_complete_any_state(s, t) ==
    get_remaining_seconds(s, t) <= 0

is_session_complete(s, t) ==
    get_remaining_seconds(s, t) <= 0 /\ s.state = RUNNING

\* complete_session that times the next session from the instant the ended
\* one ran out.
complete_session_catches_up(s, t1, t2) ==
    IF ~ (get_remaining_seconds(s, t1) <= 0 /\ s.state = RUNNING)
    THEN s
    ELSE [s EXCEPT !.work_sessions_completed =
                       IF s.session_type = WORK THEN @ + 1 ELSE @,
                   !.rest_sessions_completed =
                       IF s.session_type = REST THEN @ + 1 ELSE @,
                   !.session_type = IF s.session_type = WORK THEN REST ELSE WORK,
                   !.duration_minutes =
                       IF s.session_type = WORK THEN s.rest_minutes ELSE s.work_minutes,
                   !.start_time = s.start_time + s.duration_minutes * TicksPerMinute,
                   !.state = RUNNING,
                   !.paused_elapsed = 0]

\* complete_session that stops at the COMPLETED state instead of starting
\* the next session.
complete_session_stops(s, t1, t2) ==
    IF ~ (get_remaining_seconds(s, t1) <= 0 /\ s.state = RUNNING)
    THEN s
    ELSE [s EXCEPT !.state = COMPLETED]

\* complete_session that counts an ended REST session as a WORK session.
complete_session_miscounts(s, t1, t2) ==
    IF ~ (get_remaining_seconds(s, t1) <= 0 /\ s.state = RUNNING)
    THEN s
    ELSE [s EXCEPT !.work_sessions_completed = @ + 1,
                   !.session_type = IF s.session_type = WORK THEN REST ELSE WORK,
                   !.duration_minutes =
                       IF s.session_type = WORK THEN s.rest_minutes ELSE s.work_minutes,
                   !.start_time = t2,
                   !.state = RUNNING,
                   !.paused_elapsed = 0]

\* complete_session that takes the next duration from the type that ended.
complete_session_swapped(s, t1, t2) ==
    IF ~ (get_remaining_seconds(s, t1) <= 0 /\ s.state = RUNNING)
    THEN s
    ELSE IF s.session_type = WORK
    THEN [s EXCEPT !.work_sessions_completed = @ + 1,
                   !.session_type = REST,
                   !.duration_minutes = s.work_minutes,
                   !.start_time = t2,
                   !.state = RUNNING,
                   !.paused_elapsed = 0]
    ELSE [s EXCEPT !.rest_sessions_completed = @ + 1,
                   !.session_type = WORK,
                   !.duration_minutes = s.rest_minutes,
                   !.start_time = t2,
                   !.state = RUNNING,
                   !.paused_elapsed = 0]

\* complete_session: t1 is the reading of its is_session_complete check,
\* t2 the reading stored in start_time.
complete_session(s, t1, t2) ==
    IF ~ is_session_complete(s, t1)
    THEN s
    ELSE IF s.session_type = WORK
    THEN [s EXCEPT !.work_sessions_completed = @ + 1,
                   !.session_type = REST,
                   !.duration_minutes = s.rest_minutes,
                   !.start_time = t2,
                   !.state = RUNNING,
                   !.paused_elapsed = 0]
    ELSE [s EXCEPT !.rest_sessions_completed = @ + 1,
                   !.session_type = WORK,
                   !.duration_minutes = s.work_minutes,
                   !.start_time = t2,
                   !.state = RUNNING,
                   !.paused_elapsed = 0]

\* The test of update_settings written with "and": one valid argument is
\* enough to pass it.
update_settings_raises_both(w, r) == w <= 0 /\ r <= 0

\* update_settings raises ValueError on these arguments and changes nothing.
update_settings_raises(w, r) == w <= 0 \/ r <= 0

\* update_settings that stores the minutes and leaves the duration of the
\* current session as it is.
update_settings_keeps_duration(s, w, r) ==
    IF update_settings_raises(w, r)
    THEN s
    ELSE [s EXCEPT !.work_minutes = w,
                   !.rest_minutes = r]

\* update_settings that always takes the work minutes as the duration.
update_settings_work_only(s, w, r) ==
    IF update_settings_raises(w, r)
    THEN s
    ELSE [s EXCEPT !.work_minutes = w,
                   !.rest_minutes = r,
                   !.duration_minutes = w]

update_settings(s, w, r) ==
    IF update_settings_raises(w, r)
    THEN s
    ELSE [s EXCEPT !.work_minutes = w,
                   !.rest_minutes = r,
                   !.duration_minutes = IF s.session_type = WORK THEN w ELSE r]

toggle_focus_mode(s) ==
    LET s1 == [s EXCEPT !.is_focus_mode = ~ @]
    IN  IF ~ s1.is_focus_mode THEN reset_session(s1) ELSE s1

\* to_dict: t1 is the reading of its get_remaining_seconds call, t2 that of
\* its is_session_complete call.  The service adds the key
\* previous_session_was_work only on a transition: has_previous tells
\* whether the key is present.
to_dict(s, t1, t2) ==
    [ remaining_seconds         |-> get_remaining_seconds(s, t1),
      is_work_session           |-> s.session_type = WORK,
      is_running                |-> s.state = RUNNING,
      is_paused                 |-> s.state = PAUSED,
      session_complete          |-> is_session_complete(s, t2),
      session_changed           |-> FALSE,
      work_sessions_completed   |-> s.work_sessions_completed,
      rest_sessions_completed   |-> s.rest_sessions_completed,
      duration_minutes          |-> s.duration_minutes,
      work_minutes              |-> s.work_minutes,
      rest_minutes              |-> s.rest_minutes,
      is_focus_mode             |-> s.is_focus_mode,
      state                     |-> s.state,
      session_type              |-> s.session_type,
      has_previous              |-> FALSE,
      previous_session_was_work |-> FALSE ]

\* ------------------------------------------------------- what a step returns
NoData == to_dict(PomodoroSession(DEFAULT_WORK_MINUTES, DEFAULT_REST_MINUTES,
                                  DEFAULT_WORK_MINUTES), 0, 0)

\* op names the operation, args holds its arguments, ok its boolean result,
\* secs its integer result and data the record it returned.
Ret(op, ok, secs, data) ==
    [op |-> op, args |-> <<>>, ok |-> ok, secs |-> secs, data |-> data]

\* ----------------------------------------------------------------- strings
\* A string is the sequence of its characters.  Alphabet lists the
\* characters used, in code point order.
Alphabet == <<" ", "a", "b", "c", "d">>

CharRank(c) == CHOOSE i \in 1..Len(Alphabet) : Alphabet[i] = c

\* v < w for two strings, as Python compares them.
RECURSIVE StrLess(_, _)
StrLess(v, w) ==
    IF Len(w) = 0 THEN FALSE
    ELSE IF Len(v) = 0 THEN TRUE
    ELSE IF v[1] # w[1] THEN CharRank(v[1]) < CharRank(w[1])
    ELSE StrLess(Tail(v), Tail(w))

RECURSIVE lstrip(_)
lstrip(v) == IF Len(v) > 0 /\ v[1] = " " THEN lstrip(Tail(v)) ELSE v

RECURSIVE rstrip(_)
rstrip(v) ==
    IF Len(v) > 0 /\ v[Len(v)] = " " THEN rstrip(SubSeq(v, 1, Len(v) - 1)) ELSE v

\* str.strip()
strip(v) == rstrip(lstrip(v))

\* The names used for tasks and favorites: one letter each.
Names == {<<Alphabet[i + 1]>> : i \in 1..MaxNames}

\* The texts typed in: nothing, a blank, and every name as it is, with a
\* leading blank and with a trailing blank.
Texts ==
    {<<>>, <<" ">>} \cup Names \cup {<<" ">> \o n : n \in Names}
        \cup {n \o <<" ">> : n \in Names}

\* list.remove(x) / list.pop(i): the list without its i-th element (1-based).
RemoveAt(seq, i) == SubSeq(seq, 1, i - 1) \o SubSeq(seq, i + 1, Len(seq))

\* The stable sort of list.sort.  before[i][j] is "key(seq[i]) < key(seq[j])".
\* SortRank is the 1-based place of the i-th element in the sorted list:
\* after every element with a smaller key and every earlier element with an
\* equal key.
SortRank(before, i) ==
    1 + Cardinality({j \in DOMAIN before :
            \/ before[j][i]
            \/ ~ before[i][j] /\ j < i})

StableSort(seq, before) ==
    LET rank == [i \in 1..Len(seq) |-> SortRank(before, i)]
    IN  [k \in 1..Len(seq) |-> seq[CHOOSE i \in 1..Len(seq) : rank[i] = k]]

\* ---------------------------------------------------- StorageService (model)
\* _task_log is a dict: the sequence of its items [name, fastest_time] in
\* dict order.  log_file, favorites_file and tasks_file are the rows last
\* written to the three files.
LogNames(log) == {log[i].name : i \in 1..Len(log)}

LogIndex(log, name) == CHOOSE i \in 1..Len(log) : log[i].name = name

NameBefore(a, b) == StrLess(a.name, b.name)

\* The key comparisons of sorted(self._task_log.items()).
ByName(log) ==
    [i \in 1..Len(log) |-> [j \in 1..Len(log) |-> NameBefore(log[i], log[j])]]

\* A StorageService constructed over a log file and a favorites file with
\* these rows: _load_task_log sorts the log by name.
StorageService(log_rows, favorite_rows) ==
    [ _task_log      |-> StableSort(log_rows, ByName(log_rows)),
      _favorites     |-> favorite_rows,
      log_file       |-> log_rows,
      favorites_file |-> favorite_rows,
      tasks_file     |-> <<>> ]

\* update_fastest_time that stores every accepted lap.
update_fastest_time_overwrites(st, task_name, lap_seconds) ==
    IF Len(task_name) = 0 \/ lap_seconds < 0
    THEN [ storage |-> st, result |-> FALSE ]
    ELSE LET log == st._task_log
             known == task_name \in LogNames(log)
             log1 == IF ~ known
                     THEN Append(log, [name |-> task_name, fastest_time |-> lap_seconds])
                     ELSE [log EXCEPT ![LogIndex(log, task_name)].fastest_time = lap_seconds]
             log2 == StableSort(log1, ByName(log1))
         IN  [ storage |-> [st EXCEPT !._task_log = log2, !.log_file = log2],
               result  |-> ~ known \/ lap_seconds < log[LogIndex(log, task_name)].fastest_time ]

\* update_fastest_time: the storage it leaves and the value it returns.
update_fastest_time(st, task_name, lap_seconds) ==
    IF Len(task_name) = 0 \/ lap_seconds < 0
    THEN [ storage |-> st, result |-> FALSE ]
    ELSE LET log == st._task_log
             known == task_name \in LogNames(log)
             faster == known /\ lap_seconds < log[LogIndex(log, task_name)].fastest_time
             log1 == IF ~ known
                     THEN Append(log, [name |-> task_name, fastest_time |-> lap_seconds])
                     ELSE IF faster
                     THEN [log EXCEPT ![LogIndex(log, task_name)].fastest_time = lap_seconds]
                     ELSE log
             log2 == StableSort(log1, ByName(log1))
         IN  [ storage |-> [st EXCEPT !._task_log = log2, !.log_file = log2],
               result  |-> ~ known \/ faster ]

delete_task_from_log(st, task_name) ==
    IF task_name \in LogNames(st._task_log)
    THEN LET log == RemoveAt(st._task_log, LogIndex(st._task_log, task_name))
         IN  [ storage |-> [st EXCEPT !._task_log = log, !.log_file = log],
               result  |-> TRUE ]
    ELSE [ storage |-> st, result |-> FALSE ]

Contains(list, x) == \E i \in 1..Len(list) : list[i] = x

FirstIndex(list, x) ==
    CHOOSE i \in 1..Len(list) : list[i] = x /\ \A j \in 1..(i - 1) : list[j] # x

\* add_favorite that compares the text as typed and stores it stripped.
add_favorite_unstripped(st, favorite_text) ==
    IF Len(favorite_text) = 0 \/ Len(strip(favorite_text)) = 0
    THEN [ storage |-> st, result |-> FALSE ]
    ELSE IF Contains(st._favorites, favorite_text)
    THEN [ storage |-> st, result |-> FALSE ]
    ELSE LET favorites == Append(st._favorites, strip(favorite_text))
         IN  [ storage |-> [st EXCEPT !._favorites = favorites,
                                      !.favorites_file = favorites],
               result  |-> TRUE ]

add_favorite(st, favorite_text) ==
    IF Len(favorite_text) = 0 \/ Len(strip(favorite_text)) = 0
    THEN [ storage |-> st, result |-> FALSE ]
    ELSE IF Contains(st._favorites, strip(favorite_text))
    THEN [ storage |-> st, result |-> FALSE ]
    ELSE LET favorites == Append(st._favorites, strip(favorite_text))
         IN  [ storage |-> [st EXCEPT !._favorites = favorites,
                                      !.favorites_file = favorites],
               result  |-> TRUE ]

delete_favorite(st, favorite_text) ==
    IF Contains(st._favorites, favorite_text)
    THEN LET favorites == RemoveAt(st._favorites, FirstIndex(st._favorites, favorite_text))
         IN  [ storage |-> [st EXCEPT !._favorites = favorites,
                                      !.favorites_file = favorites],
               result  |-> TRUE ]
    ELSE [ storage |-> st, result |-> FALSE ]

\* ------------------------------------------------------------- Task (model)
MinPriority == 1
MaxPriority == 5
DefaultPriority == 3
SecondsPerHour == 3600

\* lap_time is None or a string made of numbers with units: the sequence
\* of <<number, unit>> pairs, empty for None.
NoLap == <<>>

_format_lap_time(seconds) ==
    IF seconds < SecondsPerMinute
    THEN << <<seconds, "s">> >>
    ELSE LET hours == seconds \div SecondsPerHour
             remaining_seconds == seconds % SecondsPerHour
             minutes == remaining_seconds \div SecondsPerMinute
             secs == remaining_seconds % SecondsPerMinute
         IN  IF hours > 0
             THEN << <<hours, "h">>, <<minutes, "m">>, <<secs, "s">> >>
             ELSE << <<minutes, "m">>, <<secs, "s">> >>

Task(text, priority, t) ==
    [ text          |-> text,
      completed     |-> FALSE,
      priority      |-> priority,
      task_deadline |-> None,
      lap_time      |-> NoLap,
      created_at    |-> t,
      completed_at  |-> None ]

\* validate raises ValueError on this text and priority.
validate_raises(text, priority) ==
    \/ Len(text) = 0
    \/ Len(strip(text)) = 0
    \/ ~ (MinPriority <= priority /\ priority <= MaxPriority)

mark_completed(task, lap_seconds, t) ==
    IF task.completed
    THEN task
    ELSE [task EXCEPT !.completed = TRUE,
                      !.completed_at = t,
                      !.lap_time = _format_lap_time(lap_seconds)]

\* mark_incomplete that keeps the lap time.
mark_incomplete_keeps_lap(task) ==
    IF ~ task.completed
    THEN task
    ELSE [task EXCEPT !.completed = FALSE,
                      !.completed_at = None]

mark_incomplete(task) ==
    IF ~ task.completed
    THEN task
    ELSE [task EXCEPT !.completed = FALSE,
                      !.completed_at = None,
                      !.lap_time = NoLap]

\* -------------------------------------------------------- TaskService (model)
TaskService(storage) ==
    [ storage                  |-> storage,
      _tasks                   |-> storage.tasks_file,
      _current_completion_time |-> None,
      _spent_time_start        |-> None ]

_save_tasks(ts) == [ts EXCEPT !.storage.tasks_file = ts._tasks]

\* get_task finds a task at this 0-based index.
has_task(ts, index) == 0 <= index /\ index < Len(ts._tasks)

\* add_task raises ValueError on these arguments and changes nothing.
add_task_raises(text, priority) ==
    \/ Len(text) = 0
    \/ Len(strip(text)) = 0
    \/ validate_raises(strip(text), priority)

add_task(ts, text, priority, t) ==
    IF add_task_raises(text, priority)
    THEN ts
    ELSE _save_tasks([ts EXCEPT !._tasks = Append(@, Task(strip(text), priority, t))])

update_task_priority(ts, index, priority) ==
    IF ~ has_task(ts, index)
    THEN [ service |-> ts, result |-> FALSE ]
    ELSE LET ts1 == [ts EXCEPT !._tasks[index + 1].priority = priority]
         IN  IF validate_raises(ts1._tasks[index + 1].text, priority)
             THEN [ service |-> ts1, result |-> FALSE ]
             ELSE [ service |-> _save_tasks(ts1), result |-> TRUE ]

\* complete_task that takes the lap from the completion time of the task
\* list's first task instead of the last completion.
complete_task_moves_reference(ts, index, t) ==
    IF ~ has_task(ts, index)
    THEN [ service |-> ts, success |-> FALSE, lap_time |-> NoLap ]
    ELSE IF ts._tasks[index + 1].completed
    THEN [ service  |-> _save_tasks([ts EXCEPT
                            !._tasks[index + 1] = mark_incomplete(@),
                            !._current_completion_time = None]),
           success  |-> TRUE,
           lap_time |-> NoLap ]
    ELSE LET lap_seconds == IF ts._current_completion_time # None
                            THEN int(t[1] - ts._current_completion_time)
                            ELSE 0
             task == mark_completed(ts._tasks[index + 1], lap_seconds, t[2])
             logged == update_fastest_time(ts.storage, task.text, lap_seconds)
         IN  [ service  |-> _save_tasks([ts EXCEPT
                                !._tasks[index + 1] = task,
                                !._current_completion_time = t[3],
                                !._spent_time_start = t[4],
                                !.storage = logged.storage]),
               success  |-> TRUE,
               lap_time |-> task.lap_time ]

\* complete_task: t[1] is the reading of the lap calculation, t[2] that of
\* mark_completed, t[3] and t[4] those stored in _current_completion_time
\* and _spent_time_start.
complete_task(ts, index, t) ==
    IF ~ has_task(ts, index)
    THEN [ service |-> ts, success |-> FALSE, lap_time |-> NoLap ]
    ELSE IF ts._tasks[index + 1].completed
    THEN [ service  |-> _save_tasks([ts EXCEPT !._tasks[index + 1] = mark_incomplete(@)]),
           success  |-> TRUE,
           lap_time |-> NoLap ]
    ELSE LET lap_seconds == IF ts._current_completion_time # None
                            THEN int(t[1] - ts._current_completion_time)
                            ELSE 0
             task == mark_completed(ts._tasks[index + 1], lap_seconds, t[2])
             logged == update_fastest_time(ts.storage, task.text, lap_seconds)
         IN  [ service  |-> _save_tasks([ts EXCEPT
                                !._tasks[index + 1] = task,
                                !._current_completion_time = t[3],
                                !._spent_time_start = t[4],
                                !.storage = logged.storage]),
               success  |-> TRUE,
               lap_time |-> task.lap_time ]

delete_task(ts, index) ==
    IF has_task(ts, index)
    THEN [ service |-> _save_tasks([ts EXCEPT !._tasks = RemoveAt(@, index + 1)]),
           result  |-> TRUE ]
    ELSE [ service |-> ts, result |-> FALSE ]

PriorityBefore(a, b) ==
    \/ a.priority < b.priority
    \/ a.priority = b.priority /\ a.created_at < b.created_at

PriorityAfter(a, b) ==
    \/ a.priority > b.priority
    \/ a.priority = b.priority /\ a.created_at < b.created_at

ByPriority(tasks, ascending) ==
    [i \in 1..Len(tasks) |-> [j \in 1..Len(tasks) |->
        IF ascending
        THEN PriorityBefore(tasks[i], tasks[j])
        ELSE PriorityAfter(tasks[i], tasks[j])]]

sort_tasks_by_priority(ts, ascending) ==
    _save_tasks([ts EXCEPT !._tasks = StableSort(@, ByPriority(@, ascending))])

\* datetime.max, the sort key of a task without a deadline.
DatetimeMax == MaxNow + MaxJitter + 1

DeadlineKey(task) ==
    IF task.task_deadline = None THEN DatetimeMax ELSE task.task_deadline

DeadlineBefore(a, b) ==
    \/ DeadlineKey(a) < DeadlineKey(b)
    \/ DeadlineKey(a) = DeadlineKey(b) /\ PriorityBefore(a, b)

ByDeadline(tasks) ==
    [i \in 1..Len(tasks) |-> [j \in 1..Len(tasks) |->
        DeadlineBefore(tasks[i], tasks[j])]]

sort_tasks_by_deadline(ts) ==
    _save_tasks([ts EXCEPT !._tasks = StableSort(@, ByDeadline(@))])

\* ------------------------------------------------ the globals of src/app.py
AppGlobals ==
    [ focus_mode               |-> FALSE,
      pomodoro_work_minutes    |-> DEFAULT_WORK_MINUTES,
      pomodoro_rest_minutes    |-> DEFAULT_REST_MINUTES,
      pomodoro_is_work_session |-> TRUE,
      pomodoro_start_time      |-> None,
      pomodoro_is_running      |-> FALSE,
      pomodoro_paused_elapsed  |-> 0,
      work_sessions_completed  |-> 0,
      rest_sessions_completed  |-> 0 ]

\* ------------------------------------------------ PomodoroService (actions)
Init ==
    /\ now = 0
    /\ session = PomodoroSession(DEFAULT_WORK_MINUTES, DEFAULT_REST_MINUTES,
                                 DEFAULT_WORK_MINUTES)
    /\ ret = Ret("init", TRUE, 0, NoData)
    /\ app = AppGlobals
    /\ task_service = TaskService(StorageService(<<>>, <<>>))

\* Time passes between two requests.
Advance ==
    /\ \E t \in Instants : t > now /\ now' = t
    /\ ret' = Ret("advance", TRUE, 0, NoData)
    /\ UNCHANGED <<session, app, task_service>>

svc_start_session ==
    /\ session' = start_session(session, now)
    /\ ret' = Ret("start_session", TRUE, 0, NoData)
    /\ UNCHANGED <<now, app, task_service>>

svc_pause_session ==
    /\ session' = pause_session(session, now)
    /\ ret' = Ret("pause_session", TRUE, 0, NoData)
    /\ UNCHANGED <<now, app, task_service>>

svc_resume_session ==
    /\ session' = resume_session(session, now)
    /\ ret' = Ret("resume_session", TRUE, 0, NoData)
    /\ UNCHANGED <<now, app, task_service>>

svc_reset_session ==
    /\ session' = reset_session(session)
    /\ ret' = Ret("reset_session", TRUE, 0, NoData)
    /\ UNCHANGED <<now, app, task_service>>

svc_update_settings ==
    \E a \in ArgMinutes :
        /\ session' = update_settings(session, a[1], a[2])
        /\ ret' = [Ret("update_settings", ~ update_settings_raises(a[1], a[2]),
                        0, NoData) EXCEPT !.args = a]
        /\ UNCHANGED <<now, app, task_service>>

svc_toggle_focus_mode ==
    /\ session' = toggle_focus_mode(session)
    /\ ret' = Ret("toggle_focus_mode", session'.is_focus_mode, 0, NoData)
    /\ UNCHANGED <<now, app, task_service>>

svc_get_remaining_seconds ==
    /\ ret' = Ret("get_remaining_seconds", TRUE,
                  get_remaining_seconds(session, now), NoData)
    /\ UNCHANGED <<now, session, app, task_service>>

\* get_session_data.  A RUNNING session reads the clock in
\* is_session_complete (t[1]); on expiry again in complete_session (t[2]),
\* for the new start_time (t[3]) and twice in to_dict (t[4], t[5]); otherwise
\* twice in to_dict (t[2], t[3]).  A session that is not RUNNING reads no
\* clock.
clock_reads(s, t) ==
    IF is_session_complete(s, t) THEN 5 ELSE IF reads_clock(s) THEN 3 ELSE 0

get_session_data(s, t) ==
    IF ~ reads_clock(s)
    THEN [ session |-> s, data |-> to_dict(s, None, None) ]
    ELSE IF is_session_complete(s, t[1]) /\ s.state = RUNNING
    THEN LET s2 == complete_session(s, t[2], t[3])
             session_changed == is_session_complete(s, t[2])
             data == to_dict(s2, t[4], t[5])
         IN  [ session |-> s2,
               data |-> [data EXCEPT
                   !.session_changed = session_changed,
                   !.has_previous = session_changed,
                   !.previous_session_was_work =
                       session_changed /\ data.session_type # WORK] ]
    ELSE [ session |-> s, data |-> to_dict(s, t[2], t[3]) ]

svc_get_session_data ==
    \E t \in Readings(now, clock_reads(session, now)) :
        LET out == get_session_data(session, t)
        IN  /\ session' = out.session
            /\ now' = IF Len(t) = 0 THEN now ELSE t[Len(t)]
            /\ ret' = Ret("get_session_data", TRUE, 0, out.data)
            /\ UNCHANGED <<app, task_service>>

Next ==
    \/ Advance
    \/ svc_start_session
    \/ svc_pause_session
    \/ svc_resume_session
    \/ svc_reset_session
    \/ svc_update_settings
    \/ svc_toggle_focus_mode
    \/ svc_get_remaining_seconds
    \/ svc_get_session_data

Spec == Init /\ [][Next]_vars

\* ------------------------------------------- a session left to run (cycle)
\* The service constructed with its own minutes, started once and then only
\* polled while time passes: no pause, reset, settings change or focus
\* toggle.  The engine reads the clock only to subtract start_time from a
\* reading or to store a reading in start_time, so moving the origin of the
\* clock changes nothing it can observe: after every step the origin is
\* moved forward by the whole minutes that lie before start_time (before
\* now while there is no start_time), which keeps a run of any length
\* inside Instants.  The counters are unbounded: the run is observed until
\* rest_sessions_completed reaches MaxCompleted.
CycleMinutes == 1..(HorizonMinutes - 1)

ClockOrigin(s, n) ==
    TicksPerMinute * ((IF s.start_time = None THEN n ELSE s.start_time) \div TicksPerMinute)

Rebased(s, n) ==
    [ now     |-> n - ClockOrigin(s, n),
      session |-> IF s.start_time = None
                  THEN s
                  ELSE [s EXCEPT !.start_time = @ - ClockOrigin(s, n)] ]

InitCycle ==
    /\ now = 0
    /\ \E w \in CycleMinutes, r \in CycleMinutes : session = PomodoroSession(w, r, w)
    /\ ret = Ret("init", TRUE, 0, NoData)
    /\ app = AppGlobals
    /\ task_service = TaskService(StorageService(<<>>, <<>>))

CycleAdvance ==
    \E t \in Instants :
        /\ t > now
        /\ now' = Rebased(session, t).now
        /\ ret' = Ret("advance", TRUE, 0, NoData)
        /\ UNCHANGED <<session, app, task_service>>

CycleStart ==
    /\ session.state = NOT_STARTED
    /\ session' = Rebased(start_session(session, now), now).session
    /\ now' = Rebased(start_session(session, now), now).now
    /\ ret' = Ret("start_session", TRUE, 0, NoData)
    /\ UNCHANGED <<app, task_service>>

CyclePoll ==
    /\ session.rest_sessions_completed < MaxCompleted
    /\ \E t \in Readings(now, clock_reads(session, now)) :
           LET out == get_session_data(session, t)
               end == IF Len(t) = 0 THEN now ELSE t[Len(t)]
           IN  /\ session' = Rebased(out.session, end).session
               /\ now' = Rebased(out.session, end).now
               /\ ret' = Ret("get_session_data", TRUE, 0, out.data)
               /\ UNCHANGED <<app, task_service>>

NextCycle ==
    \/ CycleAdvance
    \/ CycleStart
    \/ CyclePoll

\* Time keeps advancing and the page keeps polling.
SpecCycle ==
    /\ InitCycle
    /\ [][NextCycle]_vars
    /\ WF_vars(CycleAdvance)
    /\ WF_vars(CyclePoll)

\* ---------------------------------------- the Pomodoro routes of src/app.py
\* A form value is the sequence of its characters; <<>> stands for a field
\* that is missing (request.form.get returns None) or empty: both are falsy.
DigitChars == <<"0", "1", "2", "3", "4", "5", "6", "7", "8", "9">>

\* str.isdigit(): at least one character and every character a digit.
isdigit(v) ==
    /\ Len(v) > 0
    /\ \A i \in 1..Len(v) : \E d \in 1..Len(DigitChars) : v[i] = DigitChars[d]

DigitValue(c) == (CHOOSE d \in 1..Len(DigitChars) : DigitChars[d] = c) - 1

\* int(v) of a string of digits.
RECURSIVE int_of_digits(_)
int_of_digits(v) ==
    IF Len(v) = 0
    THEN 0
    ELSE int_of_digits(SubSeq(v, 1, Len(v) - 1)) * Len(DigitChars) + DigitValue(v[Len(v)])

\* The settings forms posted, as (work_minutes, rest_minutes): every pair
\* of minutes in 1..MaxMinutes, a form with work_minutes "0" and a form with
\* rest_minutes "-1".
FormMinutes == {<<DigitChars[d + 1]>> : d \in 1..MaxMinutes}

FormValues ==
    (FormMinutes \X FormMinutes)
        \cup {<<<<"0">>, <<DigitChars[MaxMinutes + 1]>>>>,
              <<<<DigitChars[MaxMinutes + 1]>>, <<"-", "1">>>>}

app_toggle_focus_mode(g) ==
    LET g1 == [g EXCEPT !.focus_mode = ~ @]
    IN  IF ~ g1.focus_mode
        THEN [g1 EXCEPT !.pomodoro_start_time = None,
                        !.pomodoro_is_running = FALSE,
                        !.work_sessions_completed = 0,
                        !.rest_sessions_completed = 0]
        ELSE g1

update_pomodoro_settings(g, work_mins, rest_mins) ==
    LET g1 == IF Len(work_mins) > 0 /\ isdigit(work_mins)
              THEN [g EXCEPT !.pomodoro_work_minutes = int_of_digits(work_mins)]
              ELSE g
    IN  IF Len(rest_mins) > 0 /\ isdigit(rest_mins)
        THEN [g1 EXCEPT !.pomodoro_rest_minutes = int_of_digits(rest_mins)]
        ELSE g1

start_pomodoro(g, t) ==
    [g EXCEPT !.pomodoro_start_time = t,
              !.pomodoro_is_running = TRUE,
              !.pomodoro_paused_elapsed = 0]

pause_pomodoro(g, t) ==
    [g EXCEPT !.pomodoro_is_running = FALSE,
              !.pomodoro_paused_elapsed =
                  IF g.pomodoro_start_time # None THEN t - g.pomodoro_start_time ELSE @]

resume_pomodoro(g, t) ==
    [g EXCEPT !.pomodoro_start_time = t - g.pomodoro_paused_elapsed,
              !.pomodoro_is_running = TRUE,
              !.pomodoro_paused_elapsed = 0]

reset_pomodoro(g) ==
    [g EXCEPT !.pomodoro_start_time = None,
              !.pomodoro_is_running = FALSE,
              !.pomodoro_is_work_session = TRUE,
              !.pomodoro_paused_elapsed = 0,
              !.work_sessions_completed = 0,
              !.rest_sessions_completed = 0]

\* session_duration of get_pomodoro_time, in minutes.
session_minutes(g) ==
    IF g.pomodoro_is_work_session THEN g.pomodoro_work_minutes ELSE g.pomodoro_rest_minutes

\* The JSON object of get_pomodoro_time; has_previous tells whether the key
\* previous_session_was_work is present.
PomodoroTime(g, remaining, running, complete, changed) ==
    [ remaining_seconds         |-> remaining,
      is_work_session           |-> g.pomodoro_is_work_session,
      is_running                |-> running,
      session_complete          |-> complete,
      session_changed           |-> changed,
      has_previous              |-> changed,
      previous_session_was_work |-> changed /\ ~ g.pomodoro_is_work_session,
      work_sessions_completed   |-> g.work_sessions_completed,
      rest_sessions_completed   |-> g.rest_sessions_completed ]

\* get_pomodoro_time at clock reading t: the globals it leaves and the JSON
\* object it returns.  remaining_seconds is a float, kept in ticks.
get_pomodoro_time(g, t) ==
    IF g.pomodoro_start_time = None
    THEN [ app  |-> g,
           data |-> PomodoroTime(g, session_minutes(g) * SecondsPerMinute,
                                 FALSE, FALSE, FALSE) ]
    ELSE LET elapsed == IF g.pomodoro_is_running
                        THEN t - g.pomodoro_start_time
                        ELSE g.pomodoro_paused_elapsed
             remaining == Max(0, session_minutes(g) * TicksPerMinute - elapsed)
             session_complete == remaining <= 0
         IN  IF session_complete /\ g.pomodoro_is_running
             THEN LET g1 == [g EXCEPT
                          !.work_sessions_completed =
                              IF g.pomodoro_is_work_session THEN @ + 1 ELSE @,
                          !.rest_sessions_completed =
                              IF g.pomodoro_is_work_session THEN @ ELSE @ + 1,
                          !.pomodoro_is_work_session = ~ @,
                          !.pomodoro_start_time = t,
                          !.pomodoro_is_running = TRUE,
                          !.pomodoro_paused_elapsed = 0]
                  IN  [ app  |-> g1,
                        data |-> PomodoroTime(g1, session_minutes(g1) * SecondsPerMinute,
                                              TRUE, TRUE, TRUE) ]
             ELSE [ app  |-> g,
                    data |-> PomodoroTime(g, int(remaining), g.pomodoro_is_running,
                                          session_complete, FALSE) ]

\* ------------------------------------------------------ requests (actions)
route_toggle_focus_mode ==
    /\ app' = app_toggle_focus_mode(app)
    /\ ret' = Ret("/toggle_focus_mode", TRUE, 0, NoData)
    /\ UNCHANGED <<now, session, task_service>>

route_update_pomodoro_settings ==
    \E form \in FormValues :
        /\ app' = update_pomodoro_settings(app, form[1], form[2])
        /\ ret' = [Ret("/update_pomodoro_settings", TRUE, 0, NoData)
                       EXCEPT !.args = form]
        /\ UNCHANGED <<now, session, task_service>>

route_start_pomodoro ==
    /\ app' = start_pomodoro(app, now)
    /\ ret' = Ret("/start_pomodoro", TRUE, 0, NoData)
    /\ UNCHANGED <<now, session, task_service>>

route_pause_pomodoro ==
    /\ app' = pause_pomodoro(app, now)
    /\ ret' = Ret("/pause_pomodoro", TRUE, 0, NoData)
    /\ UNCHANGED <<now, session, task_service>>

route_resume_pomodoro ==
    /\ app' = resume_pomodoro(app, now)
    /\ ret' = Ret("/resume_pomodoro", TRUE, 0, NoData)
    /\ UNCHANGED <<now, session, task_service>>

route_reset_pomodoro ==
    /\ app' = reset_pomodoro(app)
    /\ ret' = Ret("/reset_pomodoro", TRUE, 0, NoData)
    /\ UNCHANGED <<now, session, task_service>>

\* With a duration of 0 minutes every poll of a running timer ends a
\* session: the polls are followed until a counter reaches MaxCompleted.
route_get_pomodoro_time ==
    /\ app.work_sessions_completed < MaxCompleted
    /\ app.rest_sessions_completed < MaxCompleted
    /\ app' = get_pomodoro_time(app, now).app
    /\ ret' = Ret("/get_pomodoro_time", TRUE, 0, get_pomodoro_time(app, now).data)
    /\ UNCHANGED <<now, session, task_service>>

NextApp ==
    \/ Advance
    \/ route_toggle_focus_mode
    \/ route_update_pomodoro_settings
    \/ route_start_pomodoro
    \/ route_pause_pomodoro
    \/ route_resume_pomodoro
    \/ route_reset_pomodoro
    \/ route_get_pomodoro_time

SpecApp == Init /\ [][NextApp]_vars

\* ------------------------------------------------- StorageService (actions)
\* The names and lap seconds passed to the fastest-time log: two names and
\* the empty name, and every lap from -1 to MaxLap seconds.
LogTexts == {<<>>, <<"a">>, <<"b">>}

LogArgs == LogTexts \X (-1..MaxLap)

storage_update_fastest_time ==
    /\ \E a \in LogArgs :
         LET r == update_fastest_time(task_service.storage, a[1], a[2])
         IN  /\ task_service' = [task_service EXCEPT !.storage = r.storage]
             /\ ret' = [Ret("update_fastest_time", r.result, 0, NoData)
                            EXCEPT !.args = a]
    /\ UNCHANGED <<now, session, app>>

storage_delete_task_from_log ==
    /\ \E n \in LogTexts :
         LET r == delete_task_from_log(task_service.storage, n)
         IN  /\ task_service' = [task_service EXCEPT !.storage = r.storage]
             /\ ret' = [Ret("delete_task_from_log", r.result, 0, NoData)
                            EXCEPT !.args = <<n>>]
    /\ UNCHANGED <<now, session, app>>

storage_add_favorite ==
    /\ \E v \in Texts :
         LET r == add_favorite(task_service.storage, v)
         IN  /\ task_service' = [task_service EXCEPT !.storage = r.storage]
             /\ ret' = [Ret("add_favorite", r.result, 0, NoData)
                            EXCEPT !.args = <<v>>]
    /\ UNCHANGED <<now, session, app>>

storage_delete_favorite ==
    /\ \E v \in Texts :
         LET r == delete_favorite(task_service.storage, v)
         IN  /\ task_service' = [task_service EXCEPT !.storage = r.storage]
             /\ ret' = [Ret("delete_favorite", r.result, 0, NoData)
                            EXCEPT !.args = <<v>>]
    /\ UNCHANGED <<now, session, app>>

\* The fastest-time log on its own.
NextLog ==
    \/ storage_update_fastest_time
    \/ storage_delete_task_from_log

SpecLog == Init /\ [][NextLog]_vars

\* The favorites list on its own.
NextFavorites ==
    \/ storage_add_favorite
    \/ storage_delete_favorite

SpecFavorites == Init /\ [][NextFavorites]_vars

\* ---------------------------------------------------- TaskService (actions)
\* The priorities passed in: the two ends of the valid range and the values
\* next to them outside it.
PriorityArgs == {MinPriority - 1, MinPriority, MaxPriority, MaxPriority + 1}

\* The texts typed in for a task.
TaskTexts == {<<>>, <<" ">>, <<"a">>, <<" ", "a">>}

\* The indices passed in: every place of the list and one on either side.
TaskIndices == -1..MaxTasks

task_add_task ==
    /\ Len(task_service._tasks) < MaxTasks
    /\ \E v \in TaskTexts, p \in PriorityArgs :
         /\ task_service' = add_task(task_service, v, p, now)
         /\ ret' = Ret("add_task", ~ add_task_raises(v, p), 0, NoData)
    /\ UNCHANGED <<now, session, app>>

task_update_task_priority ==
    /\ \E i \in TaskIndices, p \in PriorityArgs :
         LET r == update_task_priority(task_service, i, p)
         IN  /\ task_service' = r.service
             /\ ret' = Ret("update_task_priority", r.result, 0, NoData)
    /\ UNCHANGED <<now, session, app>>

task_complete_task ==
    /\ \E i \in TaskIndices, t \in Readings(now, 4) :
         LET r == complete_task(task_service, i, t)
             reads == has_task(task_service, i)
                          /\ ~ task_service._tasks[i + 1].completed
         IN  /\ task_service' = r.service
             /\ now' = IF reads THEN t[4] ELSE now
             /\ ret' = [Ret("complete_task", r.success, 0, [lap_time |-> r.lap_time])
                            EXCEPT !.args = <<i>>]
    /\ UNCHANGED <<session, app>>

task_delete_task ==
    /\ \E i \in TaskIndices :
         LET r == delete_task(task_service, i)
         IN  /\ task_service' = r.service
             /\ ret' = Ret("delete_task", r.result, 0, NoData)
    /\ UNCHANGED <<now, session, app>>

task_sort_tasks_by_priority ==
    /\ \E ascending \in BOOLEAN :
         /\ task_service' = sort_tasks_by_priority(task_service, ascending)
         /\ ret' = Ret("sort_tasks_by_priority", TRUE, 0, NoData)
    /\ UNCHANGED <<now, session, app>>

task_sort_tasks_by_deadline ==
    /\ task_service' = sort_tasks_by_deadline(task_service)
    /\ ret' = Ret("sort_tasks_by_deadline", TRUE, 0, NoData)
    /\ UNCHANGED <<now, session, app>>

\* The task list with no time passing: every reading of the clock is the
\* same instant.
NextTasks ==
    \/ task_add_task
    \/ task_update_task_priority
    \/ task_complete_task /\ now' = now
    \/ task_delete_task
    \/ task_sort_tasks_by_priority
    \/ task_sort_tasks_by_deadline

SpecTasks == Init /\ [][NextTasks]_vars

\* ------------------------------------------------- completions over time
\* The task list an earlier run saved: two tasks, neither completed.
SavedTasks ==
    << Task(<<"a">>, DefaultPriority, 0), Task(<<"b">>, DefaultPriority, 0) >>

\* Time passes between two requests, up to a little over a minute.
LapsAdvance == Advance /\ now' <= TicksPerMinute + MaxFine

InitLaps ==
    /\ now = 0
    /\ session = PomodoroSession(DEFAULT_WORK_MINUTES, DEFAULT_REST_MINUTES,
                                 DEFAULT_WORK_MINUTES)
    /\ ret = Ret("init", TRUE, 0, NoData)
    /\ app = AppGlobals
    /\ task_service = TaskService([StorageService(<<>>, <<>>)
                                      EXCEPT !.tasks_file = SavedTasks])

NextLaps ==
    \/ LapsAdvance
    \/ task_complete_task

SpecLaps == InitLaps /\ [][NextLaps]_vars

\* =================================================================== claims
\* The minutes configured for a session type.
Configured(s, type) == IF type = WORK THEN s.work_minutes ELSE s.rest_minutes

Opposite(type) == IF type = WORK THEN REST ELSE WORK

\* The step is a call of the named service operation.
Called(op) == ret'.op = op

\* What get_remaining_seconds returns when called at the latest reading.
RemainingNow == get_remaining_seconds(session, now)

\* The step changed no field of the session.
SessionUntouched == session' = session

\* ------------------------------------------------------------------- C1
\* C1: a get_session_data poll that finds the session RUNNING with 0
\* remaining seconds adds exactly 1 to the counter of the type that ended
\* and leaves the other counter alone, flips session_type, sets
\* duration_minutes to the configured minutes of the new type, and re-arms:
\* start_time is a clock reading of that poll, state is RUNNING and
\* paused_elapsed is 0.
C1_Step ==
    (Called("get_session_data") /\ session.state = RUNNING /\ RemainingNow = 0)
    => /\ session'.work_sessions_completed = session.work_sessions_completed
              + (IF session.session_type = WORK THEN 1 ELSE 0)
       /\ session'.rest_sessions_completed = session.rest_sessions_completed
              + (IF session.session_type = REST THEN 1 ELSE 0)
       /\ session'.session_type = Opposite(session.session_type)
       /\ session'.duration_minutes = Configured(session, session'.session_type)
       /\ session'.work_minutes = session.work_minutes
       /\ session'.rest_minutes = session.rest_minutes
       /\ session'.start_time >= now /\ session'.start_time <= now'
       /\ session'.state = RUNNING
       /\ session'.paused_elapsed = 0

C1_CompleteSession == [][C1_Step]_vars

\* A poll has just ended a REST session after a WORK session ended before,
\* with different minutes configured for the two types.
C1_Witness ==
    /\ ret.op = "get_session_data"
    /\ ret.data.session_changed
    /\ session.session_type = WORK
    /\ session.rest_sessions_completed = 1
    /\ session.work_sessions_completed = 1
    /\ session.work_minutes # session.rest_minutes

\* ------------------------------------------------------------------- C2
\* C2: the get_session_data call that performs a transition returns
\* session_complete = true, session_changed = true, is_running = true,
\* remaining_seconds = the full duration of the new type and
\* previous_session_was_work naming the type that ended; a poll that
\* performs no transition returns session_changed = false.
Transitioned ==
    session'.work_sessions_completed + session'.rest_sessions_completed
        # session.work_sessions_completed + session.rest_sessions_completed

C2_Step ==
    Called("get_session_data")
    => IF Transitioned
       THEN /\ ret'.data.session_complete
            /\ ret'.data.session_changed
            /\ ret'.data.is_running
            /\ ret'.data.remaining_seconds =
                   Configured(session', session'.session_type) * SecondsPerMinute
            /\ ret'.data.has_previous
            /\ ret'.data.previous_session_was_work = (session.session_type = WORK)
       ELSE ~ ret'.data.session_changed

C2_TransitionRecord == [][C2_Step]_vars

\* ------------------------------------------------------------------- C3
\* C3 as stated: pausing a RUNNING session E seconds after its start, with
\* 0 <= E < D*60, leaves get_remaining_seconds at exactly D*60 - E; it keeps
\* that value while the session stays PAUSED with the same duration; and
\* right after resume_session get_remaining_seconds is still that value.
PausedStable ==
    (session.state = PAUSED /\ session'.state = PAUSED
        /\ session'.duration_minutes = session.duration_minutes)
    => RemainingNow' = RemainingNow

ResumeKeeps ==
    (Called("resume_session") /\ session.state = PAUSED)
    => /\ session'.state = RUNNING
       /\ RemainingNow' = RemainingNow

C3_StatedStep ==
    /\ (Called("pause_session") /\ session.state = RUNNING
           /\ now - session.start_time < session.duration_minutes * TicksPerMinute)
       => RemainingNow' * TicksPerSecond =
              session.duration_minutes * TicksPerMinute - (now - session.start_time)
    /\ PausedStable
    /\ ResumeKeeps

C3_AsStated == [][C3_StatedStep]_vars

\* C3 amended: the value kept across pause, the paused gap and resume is
\* D*60 - E rounded down to whole seconds, which is D*60 - E exactly when E
\* is a whole number of seconds.
C3_Step ==
    /\ (Called("pause_session") /\ session.state = RUNNING
           /\ now - session.start_time < session.duration_minutes * TicksPerMinute)
       => /\ session'.state = PAUSED
          /\ RemainingNow' =
              (session.duration_minutes * TicksPerMinute
                   - (now - session.start_time)) \div TicksPerSecond
          /\ (now - session.start_time) % TicksPerSecond = 0
             => RemainingNow' = session.duration_minutes * SecondsPerMinute
                                    - (now - session.start_time) \div TicksPerSecond
    /\ PausedStable
    /\ ResumeKeeps

C3_PauseResumeRoundTrip == [][C3_Step]_vars

\* A session has just been resumed after a pause taken a fractional number
\* of seconds into it, and part of its time is used up.
C3_Witness ==
    /\ ret.op = "resume_session"
    /\ session.state = RUNNING
    /\ now - session.start_time > 0
    /\ (now - session.start_time) % TicksPerSecond # 0
    /\ RemainingNow > 0
    /\ RemainingNow < session.duration_minutes * SecondsPerMinute

\* ------------------------------------------------------------------- C4
\* C4: right after reset_session, duration_minutes equals work_minutes, so
\* get_remaining_seconds returns work_minutes * 60.
C4_ResetDuration ==
    ret.op = "reset_session"
    => /\ session.duration_minutes = session.work_minutes
       /\ RemainingNow = session.work_minutes * SecondsPerMinute

\* ------------------------------------------------------------------- C5
\* C5: reset_session in any state yields state = NOT_STARTED, session_type =
\* WORK, both counters 0, start_time = None and paused_elapsed = 0, and
\* leaves work_minutes, rest_minutes and is_focus_mode unchanged.
C5_Step ==
    Called("reset_session")
    => /\ session'.state = NOT_STARTED
       /\ session'.session_type = WORK
       /\ session'.work_sessions_completed = 0
       /\ session'.rest_sessions_completed = 0
       /\ session'.start_time = None
       /\ session'.paused_elapsed = 0
       /\ session'.work_minutes = session.work_minutes
       /\ session'.rest_minutes = session.rest_minutes
       /\ session'.is_focus_mode = session.is_focus_mode

C5_ResetEffect == [][C5_Step]_vars

\* reset_session has just been called in focus mode on a session whose
\* duration is still that of the REST type it was in.
C5_Witness ==
    /\ ret.op = "reset_session"
    /\ session.is_focus_mode
    /\ session.duration_minutes = session.rest_minutes
    /\ session.duration_minutes # session.work_minutes

\* ------------------------------------------------------------------- C6
\* C6: in every reachable state start_time is None if and only if state is
\* NOT_STARTED.
C6_StartTimeNone ==
    (session.start_time = None) <=> (session.state = NOT_STARTED)

\* Leaving focus mode has just reset a session that had run into its REST
\* type: it is NOT_STARTED again and start_time is None again.
C6_Witness ==
    /\ ret.op = "toggle_focus_mode"
    /\ ~ session.is_focus_mode
    /\ session.state = NOT_STARTED
    /\ session.start_time = None
    /\ session.duration_minutes # session.work_minutes

\* ------------------------------------------------------------------- C7
\* C7: when start_session takes effect and when a poll performs a
\* transition, duration_minutes equals the configured minutes of the active
\* type (work_minutes for WORK, rest_minutes for REST).
C7_Step ==
    (\/ Called("start_session") /\ session.state # RUNNING
     \/ Called("get_session_data") /\ Transitioned)
    => session'.duration_minutes = Configured(session', session'.session_type)

C7_DurationMatchesType == [][C7_Step]_vars

\* ------------------------------------------------------------------- C8
\* C8: pause_session when state # RUNNING, resume_session when state #
\* PAUSED and start_session when state = RUNNING raise nothing and leave
\* every field of the session unchanged.
C8_Step ==
    (\/ Called("pause_session") /\ session.state # RUNNING
     \/ Called("resume_session") /\ session.state # PAUSED
     \/ Called("start_session") /\ session.state = RUNNING)
    => SessionUntouched /\ ret'.ok

C8_IncompatibleNoOp == [][C8_Step]_vars

\* pause_session has just been called on a session that was paused at an
\* earlier instant: paused_elapsed is still the elapsed time of that
\* earlier pause.
C8_Witness ==
    /\ ret.op = "pause_session"
    /\ session.state = PAUSED
    /\ session.paused_elapsed > 0
    /\ now > session.start_time + session.paused_elapsed

\* ------------------------------------------------------------------- C9
\* C9: a get_session_data poll of a session that is PAUSED or NOT_STARTED
\* changes no field of the session, whatever time has passed and even with
\* zero seconds remaining, and reports session_complete = false and
\* session_changed = false.
C9_Step ==
    (Called("get_session_data") /\ session.state \in {PAUSED, NOT_STARTED})
    => /\ SessionUntouched
       /\ ~ ret'.data.session_complete
       /\ ~ ret'.data.session_changed

C9_OnlyRunningCompletes == [][C9_Step]_vars

\* A PAUSED session with zero seconds remaining has just been polled.
C9_Witness ==
    /\ ret.op = "get_session_data"
    /\ session.state = PAUSED
    /\ RemainingNow = 0
    /\ ret.data.remaining_seconds = 0

\* ------------------------------------------------------------------ C10
\* C10: a poll of a RUNNING WORK session made D*60 seconds or more after its
\* start returns session_changed = true, the REST type and remaining_seconds
\* = rest_minutes * 60; a poll made while the session still has time left
\* returns session_changed = false and changes neither the counters nor the
\* type.
C10_Step ==
    /\ (Called("get_session_data") /\ session.state = RUNNING
           /\ session.session_type = WORK
           /\ now - session.start_time >= session.duration_minutes * TicksPerMinute)
       => /\ ret'.data.session_changed
          /\ ret'.data.session_type = REST
          /\ ret'.data.remaining_seconds = session.rest_minutes * SecondsPerMinute
    /\ (Called("get_session_data") /\ session.state = RUNNING /\ RemainingNow > 0)
       => /\ ~ ret'.data.session_changed
          /\ ~ Transitioned
          /\ session'.session_type = session.session_type

C10_OneTransitionPerExpiry == [][C10_Step]_vars

\* ------------------------------------------------------------------ C11
\* C11: work_sessions_completed grows by exactly 1 on each WORK-to-REST
\* transition of a poll and rest_sessions_completed by exactly 1 on each
\* REST-to-WORK transition of a poll; every other step leaves both counters
\* as they are, except reset_session, called directly or by
\* toggle_focus_mode turning focus mode off, which sets both to 0 and is
\* the only step that can lower a counter.
Resets ==
    \/ Called("reset_session")
    \/ Called("toggle_focus_mode") /\ ~ session'.is_focus_mode

PollEnds(type) ==
    /\ Called("get_session_data")
    /\ session.state = RUNNING
    /\ session.session_type = type
    /\ session'.session_type = Opposite(type)

C11_Step ==
    IF Resets
    THEN /\ session'.work_sessions_completed = 0
         /\ session'.rest_sessions_completed = 0
    ELSE /\ session'.work_sessions_completed = session.work_sessions_completed
                + (IF PollEnds(WORK) THEN 1 ELSE 0)
         /\ session'.rest_sessions_completed = session.rest_sessions_completed
                + (IF PollEnds(REST) THEN 1 ELSE 0)
         /\ session'.session_type # session.session_type
                => PollEnds(WORK) \/ PollEnds(REST)

C11_CounterMonotonic == [][C11_Step]_vars

\* A second WORK session is running after one WORK and one REST session
\* ended, and time has passed since its start.
C11_Witness ==
    /\ session.state = RUNNING
    /\ session.session_type = WORK
    /\ session.work_sessions_completed = 1
    /\ session.rest_sessions_completed = 1
    /\ ret.op = "advance"
    /\ now > session.start_time

\* ------------------------------------------------------------------ C12
\* C12: once the session has been started and is only polled while time
\* advances (no pause, reset, settings change or focus toggle), the state
\* is RUNNING after every poll; a poll either leaves type and counters as
\* they are or ends the session, counts it and starts one of the opposite
\* type; and every session eventually ends, so that the type alternates and
\* both counters pass every bound: from every state with a RUNNING session
\* the run reaches MaxCompleted completed WORK and MaxCompleted completed
\* REST sessions.
C12_PollStep ==
    (Called("get_session_data") /\ session.state = RUNNING)
    => /\ session'.state = RUNNING
       /\ ret'.data.is_running
       /\ \/ /\ session'.session_type = session.session_type
             /\ ~ Transitioned
          \/ /\ session'.session_type = Opposite(session.session_type)
             /\ session'.work_sessions_completed = session.work_sessions_completed
                    + (IF session.session_type = WORK THEN 1 ELSE 0)
             /\ session'.rest_sessions_completed = session.rest_sessions_completed
                    + (IF session.session_type = REST THEN 1 ELSE 0)

RunningIn(type, w, r) ==
    /\ session.state = RUNNING
    /\ session.session_type = type
    /\ session.work_sessions_completed = w
    /\ session.rest_sessions_completed = r

C12_ContinuousCycling ==
    /\ [][C12_PollStep]_vars
    /\ (session.state = RUNNING) ~> RunningIn(WORK, MaxCompleted, MaxCompleted)

\* The session left to run has gone through MaxCompleted WORK and
\* MaxCompleted REST sessions.
C12_Witness ==
    /\ ret.op = "get_session_data"
    /\ RunningIn(WORK, MaxCompleted, MaxCompleted)

\* ------------------------------------------------------------------ C13
\* C13: update_settings called with a non-positive work_minutes or
\* rest_minutes (such as (0, 5) or (5, -1)) is rejected: the service returns
\* False and no field of the session changes; so work_minutes, rest_minutes
\* and duration_minutes are greater than 0 in every reachable state.
C13_Step ==
    (Called("update_settings") /\ (ret'.args[1] <= 0 \/ ret'.args[2] <= 0))
    => /\ ~ ret'.ok
       /\ SessionUntouched

PositiveMinutes ==
    /\ session.work_minutes > 0
    /\ session.rest_minutes > 0
    /\ session.duration_minutes > 0

C13_RejectsNonPositive == [][C13_Step]_vars /\ []PositiveMinutes

\* update_settings has just been refused with a negative rest_minutes on a
\* RUNNING session whose settings had been changed before.
C13_Witness ==
    /\ ret.op = "update_settings"
    /\ ret.args[2] < 0
    /\ ~ ret.ok
    /\ session.state = RUNNING
    /\ session.work_minutes # DEFAULT_WORK_MINUTES

\* ------------------------------------------------------------------ C14
\* C14: a successful update_settings(w, r) sets work_minutes = w,
\* rest_minutes = r and duration_minutes = the new minutes of the current
\* session_type, and leaves state, start_time, paused_elapsed,
\* session_type, is_focus_mode and both counters unchanged.
C14_Step ==
    (Called("update_settings") /\ ret'.ok)
    => /\ session'.work_minutes = ret'.args[1]
       /\ session'.rest_minutes = ret'.args[2]
       /\ session'.duration_minutes =
              (IF session.session_type = WORK THEN ret'.args[1] ELSE ret'.args[2])
       /\ session'.state = session.state
       /\ session'.start_time = session.start_time
       /\ session'.paused_elapsed = session.paused_elapsed
       /\ session'.session_type = session.session_type
       /\ session'.is_focus_mode = session.is_focus_mode
       /\ session'.work_sessions_completed = session.work_sessions_completed
       /\ session'.rest_sessions_completed = session.rest_sessions_completed

C14_UpdateSettingsEffect == [][C14_Step]_vars

\* update_settings has just succeeded on a REST session that is RUNNING,
\* part of its time used up, with different minutes for the two types.
C14_Witness ==
    /\ ret.op = "update_settings"
    /\ ret.ok
    /\ session.session_type = REST
    /\ session.state = RUNNING
    /\ now > session.start_time
    /\ session.work_minutes # session.rest_minutes
    /\ session.duration_minutes = session.rest_minutes

\* ------------------------------------------------------------------ C15
\* C15: toggle_focus_mode flips is_focus_mode and returns the new value;
\* turning focus mode off leaves the session NOT_STARTED, of type WORK, with
\* both counters 0, no start_time, paused_elapsed 0 and the full work
\* duration (duration_minutes = work_minutes); turning it on changes no
\* other field.
C15_Step ==
    Called("toggle_focus_mode")
    => /\ session'.is_focus_mode = ~ session.is_focus_mode
       /\ ret'.ok = session'.is_focus_mode
       /\ IF session'.is_focus_mode
          THEN session' = [session EXCEPT !.is_focus_mode = TRUE]
          ELSE /\ session'.state = NOT_STARTED
               /\ session'.session_type = WORK
               /\ session'.work_sessions_completed = 0
               /\ session'.rest_sessions_completed = 0
               /\ session'.start_time = None
               /\ session'.paused_elapsed = 0
               /\ session'.duration_minutes = session'.work_minutes
               /\ RemainingNow' = session'.work_minutes * SecondsPerMinute

C15_ToggleFocusMode == [][C15_Step]_vars

\* ------------------------------------------------------------------ C16
\* C16: get_remaining_seconds changes no field and returns an integer in
\* [0, duration_minutes * 60]; for a RUNNING session started at T and
\* queried at T + E, E a whole number of seconds, it returns
\* duration_minutes * 60 - E when 0 <= E < duration_minutes * 60 and 0 when
\* E >= duration_minutes * 60; it returns the full duration when start_time
\* is None.
ElapsedTicks == now - session.start_time

C16_Step ==
    Called("get_remaining_seconds")
    => /\ SessionUntouched
       /\ ret'.secs \in 0..(session.duration_minutes * SecondsPerMinute)
       /\ session.start_time = None
              => ret'.secs = session.duration_minutes * SecondsPerMinute
       /\ (session.state = RUNNING /\ ElapsedTicks % TicksPerSecond = 0)
              => ret'.secs =
                     IF ElapsedTicks < session.duration_minutes * TicksPerMinute
                     THEN session.duration_minutes * SecondsPerMinute
                              - ElapsedTicks \div TicksPerSecond
                     ELSE 0
       /\ (session.state = RUNNING
               /\ ElapsedTicks >= session.duration_minutes * TicksPerMinute)
              => ret'.secs = 0

C16_RemainingSeconds == [][C16_Step]_vars

\* get_remaining_seconds has just been called on a RUNNING session a whole,
\* positive number of seconds after its start and returned what is left.
C16_Witness ==
    /\ ret.op = "get_remaining_seconds"
    /\ session.state = RUNNING
    /\ ElapsedTicks > 0
    /\ ElapsedTicks % TicksPerSecond = 0
    /\ ret.secs > 0
    /\ ret.secs = session.duration_minutes * SecondsPerMinute
                      - ElapsedTicks \div TicksPerSecond

\* ------------------------------------------------------------------ C17
\* C17: start_session called in state NOT_STARTED or PAUSED sets state =
\* RUNNING, start_time = the clock reading of the call and paused_elapsed =
\* 0, so that get_remaining_seconds at that reading is the full
\* duration_minutes * 60 (a start while PAUSED discards the elapsed time);
\* it changes neither counter nor session_type.
C17_Step ==
    (Called("start_session") /\ session.state \in {NOT_STARTED, PAUSED})
    => /\ session'.state = RUNNING
       /\ session'.start_time = now'
       /\ session'.paused_elapsed = 0
       /\ RemainingNow' = session.duration_minutes * SecondsPerMinute
       /\ session'.duration_minutes = session.duration_minutes
       /\ session'.work_sessions_completed = session.work_sessions_completed
       /\ session'.rest_sessions_completed = session.rest_sessions_completed
       /\ session'.session_type = session.session_type

C17_StartSession == [][C17_Step]_vars

\* start_session has just been called on a REST session, which no reset
\* has touched since its WORK session ended, and the session is RUNNING
\* from the reading of that call.
C17_Witness ==
    /\ ret.op = "start_session"
    /\ session.session_type = REST
    /\ session.state = RUNNING
    /\ session.start_time = now
    /\ session.work_sessions_completed = 1

\* ------------------------------------------------------------------ C18
\* C18: in the web app a POST to /update_pomodoro_settings that carries a
\* non-positive work_minutes or rest_minutes (work_minutes=0 with a valid
\* rest_minutes, or a valid work_minutes with rest_minutes=-1) changes
\* neither pomodoro_work_minutes nor pomodoro_rest_minutes, so both are
\* greater than 0 after any sequence of requests.
NonPositiveForm(v) ==
    \/ isdigit(v) /\ int_of_digits(v) = 0
    \/ Len(v) > 1 /\ v[1] = "-" /\ isdigit(Tail(v))

C18_Step ==
    (Called("/update_pomodoro_settings")
        /\ (NonPositiveForm(ret'.args[1]) \/ NonPositiveForm(ret'.args[2])))
    => /\ app'.pomodoro_work_minutes = app.pomodoro_work_minutes
       /\ app'.pomodoro_rest_minutes = app.pomodoro_rest_minutes

C18_RejectsNonPositiveForm ==
    /\ [][C18_Step]_vars
    /\ [](app.pomodoro_work_minutes > 0 /\ app.pomodoro_rest_minutes > 0)

\* ------------------------------------------------------------------ C19
\* C19: in the web app /pause_pomodoro when the timer is not running (also
\* a second pause while paused), /resume_pomodoro when the timer is not
\* paused and /start_pomodoro when the timer is running leave
\* pomodoro_start_time, pomodoro_is_running and pomodoro_paused_elapsed
\* unchanged, so the remaining time /get_pomodoro_time reports is the same
\* before and after the request.
AppPaused == app.pomodoro_start_time # None /\ ~ app.pomodoro_is_running

AppRemaining == get_pomodoro_time(app, now).data.remaining_seconds

C19_Step ==
    (\/ Called("/pause_pomodoro") /\ ~ app.pomodoro_is_running
     \/ Called("/resume_pomodoro") /\ ~ AppPaused
     \/ Called("/start_pomodoro") /\ app.pomodoro_is_running)
    => /\ app'.pomodoro_start_time = app.pomodoro_start_time
       /\ app'.pomodoro_is_running = app.pomodoro_is_running
       /\ app'.pomodoro_paused_elapsed = app.pomodoro_paused_elapsed
       /\ AppRemaining' = AppRemaining

C19_AppIncompatibleNoOp == [][C19_Step]_vars

\* ------------------------------------------------------------------ C20
\* C20: in the web app, after /toggle_focus_mode has turned focus mode off
\* the Pomodoro state is the one /reset_pomodoro produces:
\* pomodoro_start_time is None, pomodoro_is_running is False,
\* pomodoro_is_work_session is True, pomodoro_paused_elapsed is 0 and both
\* counters are 0, whatever the session type and timer state were before.
C20_Step ==
    (Called("/toggle_focus_mode") /\ ~ app'.focus_mode)
    => /\ app'.pomodoro_start_time = None
       /\ app'.pomodoro_is_running = FALSE
       /\ app'.pomodoro_is_work_session = TRUE
       /\ app'.pomodoro_paused_elapsed = 0
       /\ app'.work_sessions_completed = 0
       /\ app'.rest_sessions_completed = 0
       /\ app' = reset_pomodoro(app')

C20_FocusOffResets == [][C20_Step]_vars

\* ------------------------------------------------------------------ C21
\* C21: in the web app every /get_pomodoro_time poll that performs no
\* session transition returns session_complete = false and session_changed
\* = false; in particular a paused timer whose stored elapsed time is at
\* least the session duration is not reported as complete.
AppTransitioned ==
    app'.work_sessions_completed + app'.rest_sessions_completed
        # app.work_sessions_completed + app.rest_sessions_completed

C21_Step ==
    (Called("/get_pomodoro_time") /\ ~ AppTransitioned)
    => /\ ~ ret'.data.session_complete
       /\ ~ ret'.data.session_changed

C21_QuietPoll == [][C21_Step]_vars

\* ------------------------------------------------------------------ C24
\* C24: PomodoroService.pause_session returns True only if the call moved
\* the session from RUNNING to PAUSED, resume_session only if it moved it
\* from PAUSED to RUNNING, start_session only if it started the session; a
\* call that is a no-op in an incompatible state does not return True.
C24_Step ==
    /\ (Called("pause_session") /\ ret'.ok)
           => (session.state = RUNNING /\ session'.state = PAUSED)
    /\ (Called("resume_session") /\ ret'.ok)
           => (session.state = PAUSED /\ session'.state = RUNNING)
    /\ (Called("start_session") /\ ret'.ok)
           => (session.state # RUNNING /\ session'.state = RUNNING)

C24_TrueOnlyOnEffect == [][C24_Step]_vars

\* ------------------------------------------------------------------ C28
\* C28: in every state reachable from the default session by
\* start_session, pause_session, resume_session, reset_session,
\* update_settings, toggle_focus_mode and get_session_data polls,
\* work_sessions_completed = rest_sessions_completed when session_type is
\* WORK and work_sessions_completed = rest_sessions_completed + 1 when
\* session_type is REST.
C28_CountersAgreeWithType ==
    session.work_sessions_completed =
        session.rest_sessions_completed + (IF session.session_type = REST THEN 1 ELSE 0)

\* A REST session that followed a completed WORK session is PAUSED in
\* focus mode, part of its time used up.
C28_Witness ==
    /\ session.session_type = REST
    /\ session.state = PAUSED
    /\ session.paused_elapsed > 0
    /\ session.is_focus_mode
    /\ session.work_sessions_completed = 1
    /\ session.rest_sessions_completed = 0

\* ------------------------------------------------------------------ C29
\* C29: a get_session_data poll performs at most one transition: it raises
\* the sum of the two counters by at most 1 and flips the type at most
\* once, however long after the expiry it arrives, and the new session is
\* timed from a clock reading of that poll, not from the instant the
\* previous session ran out.
CounterSum(s) == s.work_sessions_completed + s.rest_sessions_completed

C29_Step ==
    Called("get_session_data")
    => /\ CounterSum(session') \in {CounterSum(session), CounterSum(session) + 1}
       /\ Transitioned
              => /\ session'.session_type = Opposite(session.session_type)
                 /\ session'.start_time >= now
                 /\ session'.start_time <= now'
       /\ ~ Transitioned => SessionUntouched

C29_LazyExpiry == [][C29_Step]_vars

\* A poll that came two minutes or more into the run has ended the first
\* WORK session, of 1 minute, and counted one session: the REST session
\* runs from that poll.
C29_Witness ==
    /\ ret.op = "get_session_data"
    /\ ret.data.session_changed
    /\ session.work_minutes = 1
    /\ session.rest_minutes = 1
    /\ session.session_type = REST
    /\ session.work_sessions_completed = 1
    /\ session.rest_sessions_completed = 0
    /\ session.start_time >= 2 * TicksPerMinute - GridBack

\* ------------------------------------------------------------------ C30
\* C30: when update_settings has shortened a RUNNING session so that the
\* new minutes of the active type * 60 <= the seconds already elapsed, the
\* next get_session_data poll performs the transition and counts the
\* session as completed; when the same update is applied to a PAUSED
\* session, get_remaining_seconds is 0, no step before a resume changes
\* the type or raises a counter, and the poll that follows the resume
\* performs the transition.
Shortened ==
    /\ ret.op = "update_settings"
    /\ ret.ok
    /\ session.start_time # None
    /\ Configured(session, session.session_type) * TicksPerMinute
           <= (IF session.state = PAUSED THEN session.paused_elapsed ELSE ElapsedTicks)

CountsEnded ==
    /\ session'.session_type = Opposite(session.session_type)
    /\ CounterSum(session') = CounterSum(session) + 1
    /\ session'.work_sessions_completed = session.work_sessions_completed
           + (IF session.session_type = WORK THEN 1 ELSE 0)

C30_Step ==
    /\ (Shortened /\ session.state = RUNNING /\ Called("get_session_data"))
           => CountsEnded
    /\ (Shortened /\ session.state = PAUSED) => RemainingNow = 0
    /\ (session.state = PAUSED /\ session'.state = PAUSED)
           => /\ session'.session_type = session.session_type
              /\ CounterSum(session') = CounterSum(session)
    /\ (ret.op = "resume_session" /\ session.state = RUNNING /\ RemainingNow = 0
            /\ Called("get_session_data"))
           => CountsEnded

C30_ShorteningEnds == [][C30_Step]_vars

\* update_settings has just shortened a RUNNING session, less than two
\* minutes old, to a duration that has already elapsed.
C30_Witness ==
    /\ Shortened
    /\ session.state = RUNNING
    /\ ElapsedTicks < 2 * TicksPerMinute
    /\ ElapsedTicks > TicksPerMinute
    /\ RemainingNow = 0

\* ------------------------------------------------------------------ C22
\* C22: every task held by TaskService has a priority between 1 and 5 after
\* any sequence of add_task, update_task_priority, complete_task,
\* delete_task and sort operations (an update_task_priority with a priority
\* outside 1..5 would have to leave the task's priority as it was).
\* Violated: update_task_priority assigns the new priority before it
\* validates it and returns False without restoring the old one.
C22_PriorityInRange ==
    \A i \in 1..Len(task_service._tasks) :
        /\ MinPriority <= task_service._tasks[i].priority
        /\ task_service._tasks[i].priority <= MaxPriority
\* ------------------------------------------------------------------ C23
\* The name has an entry in the fastest-time log of this storage.
Logged(st, name) == name \in LogNames(st._task_log)

\* The fastest time stored for a logged name.
Fastest(st, name) == st._task_log[LogIndex(st._task_log, name)].fastest_time

\* C23: StorageService.update_fastest_time keeps a best time per name.  A
\* call with an empty name or a negative lap returns False and changes
\* nothing.  Any other call leaves the name with the lap when it had no
\* entry and with the smaller of the stored time and the lap when it had
\* one (so the stored time is the minimum of the accepted laps and never
\* increases), returns True exactly when it created the entry or lowered
\* the stored time, and leaves every other entry as it was.
C23_Step ==
    Called("update_fastest_time") =>
        LET name == ret'.args[1]
            lap == ret'.args[2]
            old == task_service.storage
            new == task_service'.storage
        IN  IF Len(name) = 0 \/ lap < 0
            THEN ~ ret'.ok /\ task_service' = task_service
            ELSE /\ LogNames(new._task_log) = LogNames(old._task_log) \cup {name}
                 /\ Fastest(new, name) =
                        IF Logged(old, name) /\ Fastest(old, name) <= lap
                        THEN Fastest(old, name)
                        ELSE lap
                 /\ ret'.ok = (~ Logged(old, name) \/ lap < Fastest(old, name))
                 /\ \A n \in LogNames(old._task_log) \ {name} :
                        Fastest(new, n) = Fastest(old, n)
                 /\ new.log_file = new._task_log

C23_BestTime == [][C23_Step]_vars

\* A lap slower than the stored time was offered and refused: the stored
\* time is still the smaller one.
C23_Witness ==
    /\ ret.op = "update_fastest_time"
    /\ ~ ret.ok
    /\ Len(ret.args[1]) > 0
    /\ ret.args[2] >= 0
    /\ Logged(task_service.storage, ret.args[1])
    /\ Fastest(task_service.storage, ret.args[1]) < ret.args[2]
\* ------------------------------------------------------------------ C25
\* No text appears twice in the list and no entry is empty.
EachOnce(list) ==
    /\ \A i, j \in 1..Len(list) : i # j => list[i] # list[j]
    /\ \A i \in 1..Len(list) : Len(list[i]) > 0

\* C25: the favorites list never holds a duplicate or an empty entry;
\* add_favorite of a blank text or of a text that is in the list once
\* stripped returns False and changes nothing, and delete_favorite of a
\* text that is not in the list returns False and changes nothing.
C25_Step ==
    LET favorites == task_service.storage._favorites
    IN  /\ EachOnce(favorites)
        /\ EachOnce(task_service'.storage._favorites)
        /\ Called("add_favorite") =>
               LET v == ret'.args[1]
               IN  (Len(strip(v)) = 0 \/ Contains(favorites, strip(v))) =>
                       ~ ret'.ok /\ task_service' = task_service
        /\ (Called("delete_favorite") /\ ~ Contains(favorites, ret'.args[1])) =>
               ~ ret'.ok /\ task_service' = task_service

C25_FavoritesOnce == [][C25_Step]_vars

\* A text with a blank around it was refused because its stripped form is
\* in the list, next to another favorite.
C25_Witness ==
    /\ ret.op = "add_favorite"
    /\ ~ ret.ok
    /\ strip(ret.args[1]) # ret.args[1]
    /\ Contains(task_service.storage._favorites, strip(ret.args[1]))
    /\ Len(task_service.storage._favorites) > 1
\* ------------------------------------------------------------------ C26
\* The seconds a unit of a lap time string stands for.
UnitSeconds(unit) ==
    IF unit = "h" THEN SecondsPerHour
    ELSE IF unit = "m" THEN SecondsPerMinute
    ELSE 1

\* The seconds a lap time string reads as.
RECURSIVE LapSeconds(_)
LapSeconds(lap_time) ==
    IF Len(lap_time) = 0
    THEN 0
    ELSE lap_time[1][1] * UnitSeconds(lap_time[1][2]) + LapSeconds(Tail(lap_time))

\* The step is complete_task on a task of the list that was not completed.
Completes ==
    /\ Called("complete_task")
    /\ has_task(task_service, ret'.args[1])
    /\ ~ task_service._tasks[ret'.args[1] + 1].completed

\* The step is complete_task on a task of the list that was completed.
Unmarks ==
    /\ Called("complete_task")
    /\ has_task(task_service, ret'.args[1])
    /\ task_service._tasks[ret'.args[1] + 1].completed

\* C26: the reference point of the lap is the time of the most recent
\* completion: a completing call stores a reading of its own clock there
\* (no earlier than the completed_at it stores), and no other step moves
\* it, an un-marking call included.  A completing call made at now records
\* the whole seconds from the reference point to now, 0 when there is no
\* reference point yet: that lap is the lap time stored on the task and
\* returned, and it is the lap offered to the fastest-time log under the
\* task's text.
C26_Step ==
    LET reference == task_service._current_completion_time
        old == task_service.storage
        new == task_service'.storage
    IN  IF Completes
        THEN LET task == task_service'._tasks[ret'.args[1] + 1]
                 lap == IF reference = None THEN 0 ELSE int(now - reference)
             IN  /\ task.completed
                 /\ task.lap_time # NoLap
                 /\ LapSeconds(task.lap_time) = lap
                 /\ ret'.data.lap_time = task.lap_time
                 /\ Logged(new, task.text)
                 /\ Fastest(new, task.text) =
                        IF Logged(old, task.text) /\ Fastest(old, task.text) <= lap
                        THEN Fastest(old, task.text)
                        ELSE lap
                 /\ now <= task.completed_at
                 /\ task.completed_at <= task_service'._current_completion_time
                 /\ task_service'._current_completion_time <= now'
        ELSE task_service'._current_completion_time = reference

C27_Step ==
    Called("complete_task") =>
        LET index == ret'.args[1]
            tasks == task_service._tasks
        IN  IF ~ has_task(task_service, index)
            THEN /\ ~ ret'.ok
                 /\ ret'.data.lap_time = NoLap
                 /\ task_service' = task_service
            ELSE LET task == task_service'._tasks[index + 1]
                 IN  /\ ret'.ok
                     /\ Len(task_service'._tasks) = Len(tasks)
                     /\ \A j \in 1..Len(tasks) :
                            j # index + 1 => task_service'._tasks[j] = tasks[j]
                     /\ task.completed = ~ tasks[index + 1].completed
                     /\ tasks[index + 1].completed =>
                            /\ ret'.data.lap_time = NoLap
                            /\ task.lap_time = NoLap
                            /\ task.completed_at = None
                            /\ task = [tasks[index + 1] EXCEPT !.completed = FALSE,
                                                               !.lap_time = NoLap,
                                                               !.completed_at = None]
                            /\ task_service'.storage._task_log =
                                   task_service.storage._task_log
                            /\ task_service'.storage.log_file =
                                   task_service.storage.log_file

C27_Toggle == [][C27_Step]_vars

\* A task was completed and then un-marked by the last call: it is
\* incomplete, the call returned (True, None) and its time is in the log.
C27_Witness ==
    /\ ret.op = "complete_task"
    /\ ret.ok
    /\ ret.data.lap_time = NoLap
    /\ has_task(task_service, ret.args[1])
    /\ ~ task_service._tasks[ret.args[1] + 1].completed
    /\ task_service._tasks[ret.args[1] + 1].completed_at = None
    /\ Logged(task_service.storage, task_service._tasks[ret.args[1] + 1].text)
====
